---- MODULE Spec2Model ----
(***************************************************************************)
(* Escrow program (InitEscrow only): the account ledger the program runs   *)
(* against, the state codec of state.rs, the instruction decoder of       *)
(* intruction.rs, the handler Processor::process_init_escrow of            *)
(* processor.rs, and the runtime's handling of the handler's result        *)
(* (commit on Ok, discard on Err).                                         *)
(*                                                                         *)
(* Values.  A byte is 0..255.  A Pubkey is its 32-byte array.  A u64 is a  *)
(* tuple of four 16-bit limbs, least significant first, so that the whole  *)
(* u64 range is representable; to_le_bytes / from_le_bytes convert between *)
(* limbs and the 8 little-endian bytes.                                    *)
(***************************************************************************)
EXTENDS Integers, Sequences, FiniteSets, TLC

VARIABLES
    data,        \* ledger: account name -> the bytes stored in an escrow-record account
    authority,   \* ledger: token account name -> Pubkey that controls it (custody service state)
    tx,          \* slot -> the invocation in flight in that slot (or idle)
    wins,        \* escrow-record account -> invocations on it that returned Ok (capped)
    io           \* the last call of a codec function: its name, its input and its result

vars == <<data, authority, tx, wins, io>>

(***************************************************************************)
(* Bounds of the model.                                                    *)
(***************************************************************************)
NumSlots == 2          \* invocations the runtime may have in flight at once
NumAmounts == 2        \* how many of the sample u64 amounts invocations may name
MaxWins == 2           \* cap of the per-account count of successful invocations
NumKeys == 3           \* how many sample keys the fields of a codec input record range over
MaxTrailing == 2       \* bytes an instruction buffer may carry after its 8-byte payload

Slots == 1..NumSlots

(***************************************************************************)
(* Bytes, keys, u64.                                                       *)
(***************************************************************************)
KeyLen == 32
AmountLen == 8
LimbBase == 256 * 256

Zeros(n) == [i \in 1..n |-> 0]

\* A sample 32-byte key: distinct b give distinct keys, no byte pattern is special.
MkKey(b) == [i \in 1..KeyLen |-> (b * i + (i - 1)) % 256]

\* u64::to_le_bytes on the limb representation.
to_le_bytes(a) ==
    [i \in 1..AmountLen |->
        LET w == a[(i + 1) \div 2]
        IN  IF i % 2 = 1 THEN w % 256 ELSE w \div 256]

\* A variant of u64::from_le_bytes that reads the eight bytes most significant first.
from_be_bytes(b) == [k \in 1..4 |-> b[10 - 2 * k] + 256 * b[9 - 2 * k]]

\* u64::from_le_bytes on the limb representation.
from_le_bytes(b) == [k \in 1..4 |-> b[2 * k - 1] + 256 * b[2 * k]]

\* The u64 with value n, for n < 2^31.
U64(n) == <<n % LimbBase, n \div LimbBase, 0, 0>>

U64Max == <<LimbBase - 1, LimbBase - 1, LimbBase - 1, LimbBase - 1>>

SampleAmounts == <<U64(1000000), U64Max, U64(0), U64(1), U64(256)>>

Amounts == {SampleAmounts[i] : i \in 1..(IF NumAmounts < 5 THEN NumAmounts ELSE 5)}

(***************************************************************************)
(* state.rs: Escrow and its Pack implementation.                           *)
(***************************************************************************)
Escrow_LEN == 105

\* Field offsets of array_refs![src, 1, 32, 32, 32, 8] (1-based, inclusive).
Slice(s, from, len) == [i \in 1..len |-> s[from + i - 1]]

Escrow(init, initializer, x_account, receive_account, amount) ==
    [is_initialized |-> init,
     initializer_pubkey |-> initializer,
     x_token_account_pubkey |-> x_account,
     initializer_token_to_receive_account_pubkey |-> receive_account,
     expected_amount |-> amount]

Ok(v) == [ok |-> TRUE, err |-> "none", val |-> v]
Err(e) == [ok |-> FALSE, err |-> e, val |-> <<>>]

\* A variant of Escrow::unpack_from_slice that takes every non-zero discriminant for true.
unpack_from_slice_coercing(src) ==
    LET disc == src[1]
    IN  Ok(Escrow(disc # 0,
                  Slice(src, 2, KeyLen),
                  Slice(src, 2 + KeyLen, KeyLen),
                  Slice(src, 2 + 2 * KeyLen, KeyLen),
                  from_le_bytes(Slice(src, 2 + 3 * KeyLen, AmountLen))))

\* Escrow::unpack_from_slice: the discriminant byte must be 0 or 1.
unpack_from_slice(src) ==
    LET disc == src[1]
    IN  IF disc \notin {0, 1}
        THEN Err("InvalidAccountData")
        ELSE Ok(Escrow(disc = 1,
                       Slice(src, 2, KeyLen),
                       Slice(src, 2 + KeyLen, KeyLen),
                       Slice(src, 2 + 2 * KeyLen, KeyLen),
                       from_le_bytes(Slice(src, 2 + 3 * KeyLen, AmountLen))))

\* Pack::unpack_unchecked: the length check, then unpack_from_slice.
unpack_unchecked(input) ==
    IF Len(input) # Escrow_LEN
    THEN Err("InvalidAccountData")
    ELSE unpack_from_slice(input)

\* Escrow::pack_into_slice: the 105 bytes written for e.
pack_into_slice(e) ==
    <<IF e.is_initialized THEN 1 ELSE 0>>
        \o e.initializer_pubkey
        \o e.x_token_account_pubkey
        \o e.initializer_token_to_receive_account_pubkey
        \o to_le_bytes(e.expected_amount)

\* Pack::pack: the length check on dst, then pack_into_slice over all of dst.
pack(e, dst) ==
    IF Len(dst) # Escrow_LEN
    THEN Err("InvalidAccountData")
    ELSE Ok(pack_into_slice(e))

\* IsInitialized for Escrow.
is_initialized(e) == e.is_initialized

(***************************************************************************)
(* intruction.rs: EscrowInstruction and its decoder. Every failure is      *)
(* EscrowError::InvalidInstruction (error.rs: ProgramError::Custom(0)).    *)
(***************************************************************************)
InitEscrow(amount) == [tag |-> "InitEscrow", amount |-> amount]

\* EscrowInstruction::unpack_amount: input.get(..8) as a little-endian u64.
unpack_amount(input) ==
    IF Len(input) < AmountLen
    THEN Err("InvalidInstruction")
    ELSE Ok(from_le_bytes(SubSeq(input, 1, AmountLen)))

\* A variant of EscrowInstruction::unpack that takes every tag for InitEscrow.
unpack_any_tag(input) ==
    IF input = <<>>
    THEN Err("InvalidInstruction")
    ELSE LET amount == unpack_amount(Tail(input))
         IN  IF amount.ok THEN Ok(InitEscrow(amount.val)) ELSE Err(amount.err)

\* EscrowInstruction::unpack: split_first, then the match on the tag.
unpack(input) ==
    IF input = <<>>
    THEN Err("InvalidInstruction")
    ELSE LET tag == Head(input)
             rest == Tail(input)
             amount == unpack_amount(rest)
         IN  IF tag = 0
             THEN IF amount.ok THEN Ok(InitEscrow(amount.val)) ELSE Err(amount.err)
             ELSE Err("InvalidInstruction")

\* No codec function has been called yet.
NoCall == [fn |-> "none", input |-> <<>>, output |-> Err("none")]

(***************************************************************************)
(* The ledger the program runs against: the accounts a caller can pass.    *)
(* Wallets, token accounts, escrow-record accounts, sysvars and programs.  *)
(***************************************************************************)
Wallets == {"alice", "bob"}
DepositAccounts == {"x_alice", "x_bob", "x_foreign"}
PayoutAccounts == {"y_alice", "y_foreign"}
TokenAccounts == DepositAccounts \cup PayoutAccounts
EscrowAccounts == {"e_new", "e_corrupt", "e_poor", "e_poor_init", "e_poor_corrupt"}
SysvarAccounts == {"rent", "clock"}
ProgramAccounts == {"spl_token", "other_program"}

\* AccountInfo.key of each account.
Key(a) ==
    CASE a = "alice" -> MkKey(1)
      [] a = "bob" -> MkKey(2)
      [] a = "x_alice" -> MkKey(11)
      [] a = "x_bob" -> MkKey(12)
      [] a = "x_foreign" -> MkKey(13)
      [] a = "y_alice" -> MkKey(14)
      [] a = "y_foreign" -> MkKey(15)
      [] a = "e_new" -> MkKey(21)
      [] a = "e_corrupt" -> MkKey(22)
      [] a = "e_poor" -> MkKey(23)
      [] a = "e_poor_init" -> MkKey(24)
      [] a = "e_poor_corrupt" -> MkKey(25)
      [] a = "rent" -> MkKey(31)
      [] a = "clock" -> MkKey(32)
      [] a = "spl_token" -> MkKey(41)
      [] a = "other_program" -> MkKey(42)

\* spl_token::id(): the fixed identity of the token (asset-custody) program.
spl_token_id == Key("spl_token")

\* The identity of the escrow program itself (program_id of the entrypoint).
escrow_program_id == MkKey(51)
system_program_id == MkKey(52)
sysvar_owner_id == MkKey(53)
loader_id == MkKey(54)

\* AccountInfo.owner of each account: the program that owns it.
Owner(a) ==
    CASE a \in Wallets -> system_program_id
      [] a \in {"x_alice", "x_bob", "y_alice"} -> spl_token_id
      [] a \in {"x_foreign", "y_foreign"} -> Key("other_program")
      [] a \in EscrowAccounts -> escrow_program_id
      [] a \in SysvarAccounts -> sysvar_owner_id
      [] a \in ProgramAccounts -> loader_id

\* The Rent sysvar's contents (the cluster's rent parameters).
RentSysvar == [lamports_per_byte_year |-> 3480, exemption_threshold |-> 2, account_storage_overhead |-> 128]

\* Rent::minimum_balance(data_len).
minimum_balance(rent, data_len) ==
    (rent.account_storage_overhead + data_len) * rent.lamports_per_byte_year * rent.exemption_threshold

\* Rent::is_exempt(lamports, data_len).
is_exempt(rent, balance, data_len) == balance >= minimum_balance(rent, data_len)

\* AccountInfo.lamports() of the escrow-record accounts.
Lamports(a) ==
    IF a \in {"e_new", "e_corrupt"}
    THEN minimum_balance(RentSysvar, Escrow_LEN)
    ELSE minimum_balance(RentSysvar, Escrow_LEN) - 1

\* A record left by an earlier run of the program.
EarlierRecord == Escrow(TRUE, Key("bob"), Key("x_bob"), Key("y_alice"), U64(7))

\* The bytes each escrow-record account holds before any invocation of the model.
InitialData ==
    [a \in EscrowAccounts |->
        CASE a \in {"e_new", "e_poor"} -> Zeros(Escrow_LEN)
          [] a \in {"e_corrupt", "e_poor_corrupt"} -> <<2>> \o Zeros(Escrow_LEN - 1)
          [] a = "e_poor_init" -> pack_into_slice(EarlierRecord)]

\* The authority of each token account before any invocation of the model.
InitialAuthority ==
    [a \in TokenAccounts |-> IF a = "x_bob" THEN Key("bob") ELSE Key("alice")]

(***************************************************************************)
(* An invocation: the accounts slice, the signer flag of accounts[0], the  *)
(* amount and the program id handed to process_init_escrow, and while it   *)
(* runs: its position (pc), the account contents it works on, the CPIs it  *)
(* has issued, the writes it has made and its ProgramResult.               *)
(*   pc: "idle" | "submitted" (waiting for its accounts)                   *)
(*       | "entered" (accounts locked and loaded, line 48)                 *)
(*       | "packed" (the record written, line 103)                         *)
(*       | "returned" (the ProgramResult is known)                         *)
(*       | "done" (the runtime has kept or dropped the changes)            *)
(***************************************************************************)
FullAccountLists ==
    {<<w, x, y, e, s, p>> : w \in Wallets, x \in DepositAccounts, y \in PayoutAccounts,
                            e \in EscrowAccounts, s \in SysvarAccounts, p \in ProgramAccounts}

AccountLists == {SubSeq(l, 1, n) : l \in FullAccountLists, n \in 0..6}

Contexts ==
    [accounts : AccountLists, is_signer : BOOLEAN, amount : Amounts, program_id : {escrow_program_id}]

IdleTx ==
    [pc |-> "idle", accounts |-> <<>>, is_signer |-> FALSE, amount |-> U64(0),
     program_id |-> escrow_program_id, wdata |-> InitialData, wauth |-> InitialAuthority,
     cpis |-> <<>>, writes |-> 0, wrote |-> {}, result |-> "none", contended |-> FALSE]

\* The accounts the instruction declares writable: 1 (deposit) and 3 (escrow record).
Writable(c) == {c.accounts[i] : i \in {2, 4} \cap DOMAIN c.accounts}

\* next_account_info: the i-th account of the slice (1-based), or NotEnoughAccountKeys.
has_account(c, i) == Len(c.accounts) >= i

(***************************************************************************)
(* processor.rs, process_init_escrow, lines 48-103: the checks in the      *)
(* order of the code, then the write of the record.                        *)
(***************************************************************************)
\* A variant of line 57 that accepts an initializer that has not signed.
signer_ok_unchecked(c) == TRUE

\* line 57: the initializer must have signed.
signer_ok(c) == c.is_signer

\* A variant of line 68 that compares the owner of the deposit account (1).
owner_checked_account_deposit(c) == c.accounts[2]

\* line 68: the account whose owner is compared with spl_token::id().
owner_checked_account(c) == c.accounts[3]

\* line 68: the owner check.
token_owner_ok(c) == Owner(owner_checked_account(c)) = spl_token_id

\* line 76: Rent::from_account_info: the account must be the Rent sysvar.
rent_from_account_info(a) ==
    IF Key(a) = Key("rent") THEN Ok(RentSysvar) ELSE Err("InvalidArgument")

\* line 79: rent.is_exempt(escrow_account.lamports(), escrow_account.data_len()).
rent_exempt_ok(c, d) ==
    is_exempt(rent_from_account_info(c.accounts[5]).val,
              Lamports(c.accounts[4]), Len(d[c.accounts[4]]))

\* A variant of lines 95-99 that stores the two token accounts in each other's field.
new_escrow_info_swapped(c) ==
    Escrow(TRUE, Key(c.accounts[1]), Key(c.accounts[3]), Key(c.accounts[2]), c.amount)

\* lines 95-99: the record the handler fills in.
new_escrow_info(c) ==
    Escrow(TRUE, Key(c.accounts[1]), Key(c.accounts[2]), Key(c.accounts[3]), c.amount)

\* A variant of lines 86-88 that never finds the stored record initialized.
already_initialized_never(e) == FALSE

\* lines 84-88: unpack the stored record and test is_initialized.
already_initialized(e) == is_initialized(e)

\* line 103: the account whose data the handler borrows mutably and packs into.
written_account(c) == c.accounts[4]

\* A variant of lines 48-103 that decodes the stored record (lines 84-88) before it
\* tests the rent exemption (lines 76-81).
validate_and_pack_decode_first(c, d) ==
    IF ~has_account(c, 1) THEN Err("NotEnoughAccountKeys")
    ELSE IF ~signer_ok(c) THEN Err("MissingRequiredSignature")
    ELSE IF ~has_account(c, 2) THEN Err("NotEnoughAccountKeys")
    ELSE IF ~has_account(c, 3) THEN Err("NotEnoughAccountKeys")
    ELSE IF ~token_owner_ok(c) THEN Err("IncorrectProgramId")
    ELSE IF ~has_account(c, 4) THEN Err("NotEnoughAccountKeys")
    ELSE LET stored == unpack_unchecked(d[c.accounts[4]])
         IN  IF ~stored.ok THEN Err(stored.err)
             ELSE IF already_initialized(stored.val) THEN Err("AccountAlreadyInitialized")
             ELSE IF ~has_account(c, 5) THEN Err("NotEnoughAccountKeys")
             ELSE IF ~rent_from_account_info(c.accounts[5]).ok THEN Err("InvalidArgument")
             ELSE IF ~rent_exempt_ok(c, d) THEN Err("NotRentExcept")
             ELSE pack(new_escrow_info(c), d[c.accounts[4]])

\* lines 48-103: Err(e) at the first failing check, else Ok(the new bytes of account 3).
validate_and_pack(c, d) ==
    IF ~has_account(c, 1) THEN Err("NotEnoughAccountKeys")
    ELSE IF ~signer_ok(c) THEN Err("MissingRequiredSignature")
    ELSE IF ~has_account(c, 2) THEN Err("NotEnoughAccountKeys")
    ELSE IF ~has_account(c, 3) THEN Err("NotEnoughAccountKeys")
    ELSE IF ~token_owner_ok(c) THEN Err("IncorrectProgramId")
    ELSE IF ~has_account(c, 4) THEN Err("NotEnoughAccountKeys")
    ELSE IF ~has_account(c, 5) THEN Err("NotEnoughAccountKeys")
    ELSE IF ~rent_from_account_info(c.accounts[5]).ok THEN Err("InvalidArgument")
    ELSE IF ~rent_exempt_ok(c, d) THEN Err("NotRentExcept")
    ELSE LET stored == unpack_unchecked(d[c.accounts[4]])
         IN  IF ~stored.ok THEN Err(stored.err)
             ELSE IF already_initialized(stored.val) THEN Err("AccountAlreadyInitialized")
             ELSE pack(new_escrow_info(c), d[c.accounts[4]])

(***************************************************************************)
(* processor.rs, process_init_escrow, lines 116-173: the derived authority,*)
(* the set_authority instruction and its invocation.                       *)
(***************************************************************************)
\* b"escrow"
escrow_seed == <<101, 115, 99, 114, 111, 119>>

RECURSIVE SumBytes(_)
SumBytes(s) == IF s = <<>> THEN 0 ELSE (s[1] + SumBytes(Tail(s))) % 256

\* line 116: Pubkey::find_program_address(&[b"escrow"], program_id): a fixed function of
\* the seed and the program id (a stand-in for the hash), with its bump seed.
find_program_address(seed, pid) ==
    <<[i \in 1..KeyLen |-> (pid[i] + SumBytes(seed) + 255 * i) % 256], 255>>

\* A variant of set_authority without the check of token_program_id.
set_authority_unchecked(token_program_id, owned, new_authority, authority_type, owner, signers) ==
    Ok([program_id |-> token_program_id, account |-> owned,
        new_authority |-> new_authority, authority_type |-> authority_type,
        owner |-> owner, signers |-> signers])

\* lines 124-143: spl_token::instruction::set_authority builds the instruction, after
\* checking that token_program_id is spl_token::id() (lines 175-178).
set_authority(token_program_id, owned, new_authority, authority_type, owner, signers) ==
    IF token_program_id # spl_token_id
    THEN Err("IncorrectProgramId")
    ELSE Ok([program_id |-> token_program_id, account |-> owned,
             new_authority |-> new_authority, authority_type |-> authority_type,
             owner |-> owner, signers |-> signers])

\* A variant of lines 116-143 that adds the initializer's key to the seeds of the
\* derived authority.
owner_change_ix_per_initializer(c) ==
    set_authority(Key(c.accounts[6]), Key(c.accounts[2]),
                  find_program_address(escrow_seed \o Key(c.accounts[1]), c.program_id)[1],
                  "AccountOwner", Key(c.accounts[1]), {Key(c.accounts[1])})

\* lines 124-143: the instruction built from this invocation's accounts.
owner_change_ix(c) ==
    set_authority(Key(c.accounts[6]), Key(c.accounts[2]),
                  find_program_address(escrow_seed, c.program_id)[1],
                  "AccountOwner", Key(c.accounts[1]), {Key(c.accounts[1])})

\* A variant of lines 166-173 in which the request is carried out on account (2).
invoke_on_payout(ix, c, auth) ==
    LET target == c.accounts[3]
    IN  IF /\ Owner(target) = ix.program_id
           /\ auth[target] = ix.owner
           /\ ix.owner \in ix.signers
           /\ ix.owner = Key(c.accounts[1]) /\ c.is_signer
        THEN Ok([auth EXCEPT ![target] = ix.new_authority])
        ELSE Err("DelegationFailed")

\* lines 166-173: invoke: the token program handles SetAuthority on the token account
\* named by the instruction. It changes the authority when it owns the account, the
\* instruction names the account's current authority and that authority has signed;
\* it rejects the request otherwise.
invoke(ix, c, auth) ==
    LET target == c.accounts[2]
    IN  IF /\ Owner(target) = ix.program_id
           /\ auth[target] = ix.owner
           /\ ix.owner \in ix.signers
           /\ ix.owner = Key(c.accounts[1]) /\ c.is_signer
        THEN Ok([auth EXCEPT ![target] = ix.new_authority])
        ELSE Err("DelegationFailed")

\* A variant of lines 116-180 that drops the `?` of line 173: a rejected CPI is ignored.
delegate_outcome_ignoring_cpi_error(c, auth) ==
    LET ix == owner_change_ix(c)
        r == invoke(ix.val, c, auth)
    IN  IF ~has_account(c, 6)
        THEN [result |-> "NotEnoughAccountKeys", cpis |-> <<>>, wauth |-> auth]
        ELSE IF ~ix.ok
        THEN [result |-> ix.err, cpis |-> <<>>, wauth |-> auth]
        ELSE [result |-> "Ok", cpis |-> <<ix.val>>, wauth |-> IF r.ok THEN r.val ELSE auth]

\* A variant of lines 116-180 that finds a wrong token program only after the CPI.
delegate_outcome_check_after_cpi(c, auth) ==
    LET ix == set_authority_unchecked(Key(c.accounts[6]), Key(c.accounts[2]),
                  find_program_address(escrow_seed, c.program_id)[1],
                  "AccountOwner", Key(c.accounts[1]), {Key(c.accounts[1])})
        r == invoke(ix.val, c, auth)
    IN  IF ~has_account(c, 6)
        THEN [result |-> "NotEnoughAccountKeys", cpis |-> <<>>, wauth |-> auth]
        ELSE IF Key(c.accounts[6]) # spl_token_id
        THEN [result |-> "IncorrectProgramId", cpis |-> <<ix.val>>, wauth |-> auth]
        ELSE IF ~r.ok
        THEN [result |-> r.err, cpis |-> <<ix.val>>, wauth |-> auth]
        ELSE [result |-> "Ok", cpis |-> <<ix.val>>, wauth |-> r.val]

\* A variant of lines 116-180 that returns Ok(()) without a CPI when account (5) is absent.
delegate_outcome_without_token_program(c, auth) ==
    LET ix == owner_change_ix(c)
        r == invoke(ix.val, c, auth)
    IN  IF ~has_account(c, 6)
        THEN [result |-> "Ok", cpis |-> <<>>, wauth |-> auth]
        ELSE IF ~ix.ok
        THEN [result |-> ix.err, cpis |-> <<>>, wauth |-> auth]
        ELSE IF ~r.ok
        THEN [result |-> r.err, cpis |-> <<ix.val>>, wauth |-> auth]
        ELSE [result |-> "Ok", cpis |-> <<ix.val>>, wauth |-> r.val]

\* lines 116-180 for invocation c working on authorities auth: the ProgramResult, the
\* CPIs issued and the authorities after them. The record has been written before.
delegate_outcome(c, auth) ==
    LET ix == owner_change_ix(c)
        r == invoke(ix.val, c, auth)
    IN  IF ~has_account(c, 6)
        THEN [result |-> "NotEnoughAccountKeys", cpis |-> <<>>, wauth |-> auth]
        ELSE IF ~ix.ok
        THEN [result |-> ix.err, cpis |-> <<>>, wauth |-> auth]
        ELSE IF ~r.ok
        THEN [result |-> r.err, cpis |-> <<ix.val>>, wauth |-> auth]
        ELSE [result |-> "Ok", cpis |-> <<ix.val>>, wauth |-> r.val]

(***************************************************************************)
(* The runtime around the handler (entrypoint.rs): it locks and loads the  *)
(* accounts of an invocation, runs the handler, and keeps the handler's    *)
(* account changes only when the ProgramResult is Ok.                      *)
(***************************************************************************)
Running == {"entered", "packed", "returned"}

\* No invocation in flight in another slot holds an account this one may write.
locks_free(t, c) ==
    \A u \in Slots \ {t} : tx[u].pc \notin Running \/ Writable(tx[u]) \cap Writable(c) = {}

\* Another invocation that may write one of c's writable accounts is waiting or running.
is_contended(t, c) ==
    \E u \in Slots \ {t} :
        tx[u].pc \in Running \cup {"submitted"} /\ Writable(tx[u]) \cap Writable(c) # {}

\* Whether the runtime keeps the account changes of a returned invocation.
commits(c) == c.result = "Ok"

\* The escrow data and the token authorities in the ledger once c has returned.
committed_data(c, d) ==
    [a \in DOMAIN d |-> IF commits(c) /\ a \in Writable(c) THEN c.wdata[a] ELSE d[a]]

committed_authority(c, auth) ==
    [a \in DOMAIN auth |-> IF commits(c) /\ a \in Writable(c) THEN c.wauth[a] ELSE auth[a]]

Init ==
    /\ data = InitialData
    /\ authority = InitialAuthority
    /\ tx = [t \in Slots |-> IdleTx]
    /\ wins = [a \in EscrowAccounts |-> 0]
    /\ io = NoCall

\* A caller submits process_init_escrow(accounts, amount, program_id) in slot t.
Submit(t, c) ==
    /\ tx[t].pc = "idle"
    /\ tx' = [tx EXCEPT ![t] =
                [IdleTx EXCEPT !.pc = "submitted", !.accounts = c.accounts,
                               !.is_signer = c.is_signer, !.amount = c.amount,
                               !.program_id = c.program_id]]
    /\ UNCHANGED <<data, authority, wins, io>>

\* The runtime takes the invocation's accounts and enters the handler (line 48).
Start(t) ==
    /\ tx[t].pc = "submitted"
    /\ locks_free(t, tx[t])
    /\ tx' = [tx EXCEPT ![t] =
                [tx[t] EXCEPT !.pc = "entered", !.wdata = data, !.wauth = authority,
                              !.contended = is_contended(t, tx[t])]]
    /\ UNCHANGED <<data, authority, wins, io>>

\* Lines 48-103: the checks and, when they pass, the write of the record.
Validate(t) ==
    /\ tx[t].pc = "entered"
    /\ LET c == tx[t]
           r == validate_and_pack(c, c.wdata)
       IN  tx' = [tx EXCEPT ![t] =
                    IF r.ok
                    THEN [c EXCEPT !.pc = "packed",
                                   !.wdata = [c.wdata EXCEPT ![written_account(c)] = r.val],
                                   !.writes = c.writes + 1,
                                   !.wrote = c.wrote \cup {written_account(c)}]
                    ELSE [c EXCEPT !.pc = "returned", !.result = r.err]]
    /\ UNCHANGED <<data, authority, wins, io>>

\* Lines 116-180: the token program account, the instruction, the CPI and the return.
Delegate(t) ==
    /\ tx[t].pc = "packed"
    /\ LET c == tx[t]
           o == delegate_outcome(c, c.wauth)
       IN  tx' = [tx EXCEPT ![t] =
                    [c EXCEPT !.pc = "returned", !.result = o.result,
                              !.cpis = c.cpis \o o.cpis, !.wauth = o.wauth]]
    /\ UNCHANGED <<data, authority, wins, io>>

\* The handler has returned: the runtime keeps its changes to the writable accounts
\* when the result is Ok, drops them otherwise, and releases the accounts.
Finish(t) ==
    /\ tx[t].pc = "returned"
    /\ LET c == tx[t]
       IN  /\ data' = committed_data(c, data)
           /\ authority' = committed_authority(c, authority)
           /\ wins' = IF c.result = "Ok"
                      THEN [wins EXCEPT ![c.accounts[4]] =
                                IF @ < MaxWins THEN @ + 1 ELSE @]
                      ELSE wins
           /\ tx' = [tx EXCEPT ![t] =
                        [c EXCEPT !.pc = "done", !.wdata = InitialData,
                                  !.wauth = InitialAuthority]]
    /\ UNCHANGED io

\* The slot of a finished invocation is free again.
Retire(t) ==
    /\ tx[t].pc = "done"
    /\ tx' = [tx EXCEPT ![t] = IdleTx]
    /\ UNCHANGED <<data, authority, wins, io>>

(***************************************************************************)
(* Spec: invocations one after another, over every context.                *)
(***************************************************************************)
SubmitAny == tx[1].pc = "idle" /\ \E c \in Contexts : Submit(1, c)

Next ==
    \/ SubmitAny
    \/ \E t \in Slots : Start(t)
    \/ \E t \in Slots : Validate(t)
    \/ \E t \in Slots : Delegate(t)
    \/ \E t \in Slots : Finish(t)
    \/ \E t \in Slots : Retire(t)

Spec == Init /\ [][Next]_vars

(***************************************************************************)
(* SpecRace: one invocation per slot, submitted in any order and running   *)
(* whenever the runtime's account locks allow, all of them passing the     *)
(* signer, owner and rent checks.                                          *)
(***************************************************************************)
RaceAccountLists ==
    {<<"alice", "x_alice", "y_alice", "e_new", "rent", "spl_token">>,
     <<"bob", "x_alice", "y_alice", "e_new", "rent", "spl_token">>,
     <<"bob", "x_bob", "y_alice", "e_new", "rent", "spl_token">>,
     <<"alice", "x_alice", "y_alice", "e_new", "rent", "other_program">>,
     <<"bob", "x_bob", "y_alice", "e_corrupt", "rent", "spl_token">>}

RaceAmounts == {SampleAmounts[1], SampleAmounts[2]}

RaceContexts ==
    [accounts : RaceAccountLists, is_signer : {TRUE}, amount : RaceAmounts,
     program_id : {escrow_program_id}]

SubmitRace == \E t \in Slots : tx[t].pc = "idle" /\ \E c \in RaceContexts : Submit(t, c)

NextRace ==
    \/ SubmitRace
    \/ \E t \in Slots : Start(t)
    \/ \E t \in Slots : Validate(t)
    \/ \E t \in Slots : Delegate(t)
    \/ \E t \in Slots : Finish(t)

SpecRace == Init /\ [][NextRace]_vars

(***************************************************************************)
(* SpecCodec: one call of a codec function on an input drawn from a        *)
(* bounded set: Escrow::pack, Escrow::unpack_unchecked, or                 *)
(* Processor::process, which decodes the instruction bytes and hands the   *)
(* decoded amount to process_init_escrow.                                  *)
(***************************************************************************)
SampleKeys == <<MkKey(1), Zeros(KeyLen), [i \in 1..KeyLen |-> 255], MkKey(11), MkKey(21)>>

CodecKeys == {SampleKeys[i] : i \in 1..(IF NumKeys < 5 THEN NumKeys ELSE 5)}

\* The sample amounts and the u64 0x0807060504030201, whose eight bytes all differ.
CodecAmounts == {SampleAmounts[i] : i \in 1..5} \cup {<<513, 1027, 1541, 2055>>}

\* The in-memory records handed to Escrow::pack.
CodecRecords ==
    [is_initialized : BOOLEAN,
     initializer_pubkey : CodecKeys,
     x_token_account_pubkey : CodecKeys,
     initializer_token_to_receive_account_pubkey : CodecKeys,
     expected_amount : CodecAmounts]

\* The buffers handed to Escrow::unpack_unchecked: every value of the first byte in
\* front of the 104 bytes of a packed record, and two buffers of another length.
CodecBuffers ==
    {<<d>> \o Tail(pack_into_slice(r)) :
        d \in 0..255,
        r \in {q \in CodecRecords : /\ q.is_initialized
                                    /\ q.initializer_pubkey = SampleKeys[1]
                                    /\ q.x_token_account_pubkey = SampleKeys[2]}}
    \cup {<<>>, Zeros(Escrow_LEN - 1)}

TrailingBytes == [i \in 1..MaxTrailing |-> 170 + i]

\* The instruction buffers handed to EscrowInstruction::unpack: empty, tag 0 with every
\* prefix of a payload and its trailing bytes, and every other tag with and without payload.
InstructionInputs ==
    {<<>>}
    \cup {<<0>> \o SubSeq(to_le_bytes(a) \o TrailingBytes, 1, n) :
            a \in CodecAmounts, n \in 0..(AmountLen + MaxTrailing)}
    \cup {<<k>> \o p : k \in 1..255, p \in {<<>>, to_le_bytes(SampleAmounts[1])}}

CodecAccountLists == {<<"alice", "x_alice", "y_alice", "e_new", "rent", "spl_token">>}

CodecContexts ==
    [accounts : CodecAccountLists, is_signer : {TRUE}, program_id : {escrow_program_id}]

\* Escrow::pack applied to record r and a 105-byte destination.
PackCall(r) ==
    /\ io = NoCall
    /\ io' = [fn |-> "pack", input |-> r, output |-> pack(r, Zeros(Escrow_LEN))]
    /\ UNCHANGED <<data, authority, tx, wins>>

\* Escrow::unpack_unchecked applied to buffer b.
UnpackCall(b) ==
    /\ io = NoCall
    /\ io' = [fn |-> "unpack_unchecked", input |-> b, output |-> unpack_unchecked(b)]
    /\ UNCHANGED <<data, authority, tx, wins>>

\* Processor::process (lines 16-36) in slot t: EscrowInstruction::unpack(instruction_data)?,
\* then process_init_escrow with the decoded amount.
Process(t, c, instruction_data) ==
    /\ tx[t].pc = "idle"
    /\ LET instruction == unpack(instruction_data)
       IN  /\ io' = [fn |-> "unpack", input |-> instruction_data, output |-> instruction]
           /\ tx' = [tx EXCEPT ![t] =
                        IF instruction.ok
                        THEN [IdleTx EXCEPT !.pc = "submitted", !.accounts = c.accounts,
                                            !.is_signer = c.is_signer,
                                            !.amount = instruction.val.amount,
                                            !.program_id = c.program_id]
                        ELSE [IdleTx EXCEPT !.pc = "returned", !.accounts = c.accounts,
                                            !.is_signer = c.is_signer,
                                            !.program_id = c.program_id,
                                            !.result = instruction.err]]
    /\ UNCHANGED <<data, authority, wins>>

ProcessAny == io = NoCall /\ \E c \in CodecContexts : \E b \in InstructionInputs : Process(1, c, b)

NextCodec ==
    \/ \E r \in CodecRecords : PackCall(r)
    \/ \E b \in CodecBuffers : UnpackCall(b)
    \/ ProcessAny
    \/ \E t \in Slots : Start(t)
    \/ \E t \in Slots : Validate(t)
    \/ \E t \in Slots : Delegate(t)
    \/ \E t \in Slots : Finish(t)
    \/ \E t \in Slots : Retire(t)

SpecCodec == Init /\ [][NextCodec]_vars

(***************************************************************************)
(* Vocabulary of the properties.                                           *)
(***************************************************************************)
\* The step in which the runtime ends invocation t.
FinishStep(t) == tx[t].pc = "returned" /\ tx'[t].pc = "done"

\* Account (0) is a verified signer.
InitiatorSigned(c) == Len(c.accounts) >= 1 /\ c.is_signer

\* Account (1), the deposit account, is owned by the custody service.
DepositOwnedByCustody(c) == Len(c.accounts) >= 2 /\ Owner(c.accounts[2]) = spl_token_id

\* Account (2), the payout account, is owned by the custody service.
PayoutOwnedByCustody(c) == Len(c.accounts) >= 3 /\ Owner(c.accounts[3]) = spl_token_id

\* Account (4) is the exemption oracle and account (3) satisfies its predicate.
RecordExempt(c, d) ==
    /\ Len(c.accounts) >= 5
    /\ Key(c.accounts[5]) = Key("rent")
    /\ is_exempt(RentSysvar, Lamports(c.accounts[4]), Len(d[c.accounts[4]]))

\* Account (4) is the exemption oracle and account (3) does not satisfy its predicate.
RecordNotExempt(c, d) ==
    /\ Len(c.accounts) >= 5
    /\ Key(c.accounts[5]) = Key("rent")
    /\ ~is_exempt(RentSysvar, Lamports(c.accounts[4]), Len(d[c.accounts[4]]))

\* All six accounts are supplied, (4) is the exemption oracle, (5) the custody service.
WellFormed(c) ==
    /\ Len(c.accounts) = 6
    /\ Key(c.accounts[5]) = Key("rent")
    /\ Key(c.accounts[6]) = spl_token_id

\* The escrow authority of the program of invocation c.
EscrowAuthority(c) == find_program_address(escrow_seed, c.program_id)[1]

\* The one delegation request invocation c is to issue.
ExpectedRequest(c) ==
    [program_id |-> spl_token_id, account |-> Key(c.accounts[2]),
     new_authority |-> EscrowAuthority(c), authority_type |-> "AccountOwner",
     owner |-> Key(c.accounts[1]), signers |-> {Key(c.accounts[1])}]

\* The custody service accepts the delegation request of c in custody state auth.
CustodyAccepts(c, auth) ==
    /\ Owner(c.accounts[2]) = spl_token_id
    /\ auth[c.accounts[2]] = Key(c.accounts[1])

C2_WriteAndDelegationTogether ==
    [][\A t \in Slots :
        FinishStep(t) =>
            /\ (tx[t].writes > 0 /\ tx[t].cpis # <<>> /\ ~CustodyAccepts(tx[t], authority))
                => (tx[t].result # "Ok" /\ data' = data /\ authority' = authority)
            /\ data' # data
                => /\ tx[t].result = "Ok"
                   /\ tx[t].cpis = <<ExpectedRequest(tx[t])>>
                   /\ authority'[tx[t].accounts[2]] = EscrowAuthority(tx[t])
                   /\ unpack_unchecked(data'[tx[t].accounts[4]]).val.is_initialized]_vars

C2_Witness ==
    \E t \in Slots :
        /\ tx[t].pc = "done"
        /\ tx[t].writes = 1
        /\ tx[t].cpis # <<>>
        /\ tx[t].result = "DelegationFailed"
        /\ data[tx[t].accounts[4]] = Zeros(Escrow_LEN)

C5_InitializedIsImmutable ==
    [][\A e \in EscrowAccounts :
        LET old == unpack_unchecked(data[e])
            new == unpack_unchecked(data'[e])
        IN  /\ (old.ok /\ old.val.is_initialized) => data'[e] = data[e]
            /\ data'[e] # data[e] =>
                 /\ old.ok /\ ~old.val.is_initialized
                 /\ new.ok /\ new.val.is_initialized]_vars

C5_Witness ==
    \E t \in Slots :
        /\ tx[t].pc = "done"
        /\ Len(tx[t].accounts) >= 4
        /\ tx[t].accounts[4] = "e_new"
        /\ tx[t].result # "Ok"
        /\ data["e_new"] # InitialData["e_new"]
        /\ unpack_unchecked(data["e_new"]).val.is_initialized

(***************************************************************************)
(* C6                                                                      *)
(***************************************************************************)
\* C6: an invocation whose account (0) has not signed returns
\* MissingRequiredSignature (MissingSignature), whatever else is wrong with it, and
\* has written nothing and issued no delegation request.
C6_SignerCheckFirst ==
    \A t \in Slots :
        (/\ tx[t].pc \in {"returned", "done"}
         /\ Len(tx[t].accounts) >= 1
         /\ ~tx[t].is_signer)
        => /\ tx[t].result = "MissingRequiredSignature"
           /\ tx[t].writes = 0
           /\ tx[t].cpis = <<>>

C6_Witness ==
    \E t \in Slots :
        /\ tx[t].pc = "done"
        /\ Len(tx[t].accounts) = 6
        /\ ~tx[t].is_signer
        /\ ~PayoutOwnedByCustody(tx[t])
        /\ RecordNotExempt(tx[t], data)
        /\ tx[t].result = "MissingRequiredSignature"

C10_CustodyIdentityFixed ==
    \A t \in Slots :
        /\ \A i \in DOMAIN tx[t].cpis :
              /\ tx[t].cpis[i].program_id = spl_token_id
              /\ Key(tx[t].accounts[6]) = spl_token_id
        /\ tx[t].writes > 0 => Owner(tx[t].accounts[3]) = spl_token_id

C10_Witness ==
    \E t \in Slots :
        /\ tx[t].pc = "done"
        /\ Len(tx[t].accounts) = 6
        /\ tx[t].accounts[6] = "other_program"
        /\ Owner(tx[t].accounts[2]) = Key("other_program")
        /\ tx[t].writes = 1
        /\ tx[t].cpis = <<>>
        /\ tx[t].result = "IncorrectProgramId"

(***************************************************************************)
(* C9 (under SpecRace)                                                     *)
(***************************************************************************)
\* The record accounts that hold an uninitialized record before any invocation.
FreshRecords ==
    {e \in EscrowAccounts :
        unpack_unchecked(InitialData[e]).ok /\ ~unpack_unchecked(InitialData[e]).val.is_initialized}

\* The finished invocations on record account e, and those of them that returned Ok.
FinishedOn(e) ==
    {t \in Slots : tx[t].pc = "done" /\ Len(tx[t].accounts) >= 4 /\ tx[t].accounts[4] = e}

WinnersOn(e) == {t \in FinishedOn(e) : tx[t].result = "Ok"}

\* The record invocation c is to persist.
TermsOf(c) ==
    Escrow(TRUE, Key(c.accounts[1]), Key(c.accounts[2]), Key(c.accounts[3]), c.amount)

\* C9 as stated: of two finished invocations that were in contention for the same
\* fresh record account and each pass preconditions 1-3 (with all six accounts), one
\* returned Ok, the other AccountAlreadyInitialized, and the record holds the terms of
\* the one that returned Ok.
C9_AsStated ==
    \A t, u \in Slots :
        (/\ t # u
         /\ tx[t].pc = "done" /\ tx[u].pc = "done"
         /\ tx[t].contended \/ tx[u].contended
         /\ WellFormed(tx[t]) /\ WellFormed(tx[u])
         /\ tx[t].accounts[4] = tx[u].accounts[4]
         /\ tx[t].accounts[4] \in FreshRecords
         /\ \A v \in {t, u} :
               /\ InitiatorSigned(tx[v])
               /\ DepositOwnedByCustody(tx[v])
               /\ PayoutOwnedByCustody(tx[v])
               /\ RecordExempt(tx[v], InitialData))
        => \E w \in {t, u} :
              \E l \in {t, u} \ {w} :
                 /\ tx[w].result = "Ok"
                 /\ tx[l].result = "AccountAlreadyInitialized"
                 /\ unpack_unchecked(data[tx[w].accounts[4]]) = Ok(TermsOf(tx[w]))

\* C9 amended: of the finished invocations on one fresh record account at most one
\* returned Ok. One that passes the signer, owner (account (2)) and rent checks and did
\* not return Ok returned AccountAlreadyInitialized, which happens only when another
\* one returned Ok, or failed at the delegation (the custody service rejected the
\* request, or account (5) is missing or is not the custody service). When one
\* returned Ok the record holds exactly its terms; when none did the record is as
\* before. The delegations that have taken effect are exactly those of the invocations
\* that returned Ok.
C9_AtMostOneWinner ==
    /\ \A e \in FreshRecords :
          /\ Cardinality(WinnersOn(e)) <= 1
          /\ wins[e] = Cardinality(WinnersOn(e))
          /\ \A w \in WinnersOn(e) :
                /\ unpack_unchecked(data[e]) = Ok(TermsOf(tx[w]))
                /\ authority[tx[w].accounts[2]] = EscrowAuthority(tx[w])
          /\ WinnersOn(e) = {} => data[e] = InitialData[e]
          /\ \A l \in FinishedOn(e) \ WinnersOn(e) :
                (InitiatorSigned(tx[l]) /\ PayoutOwnedByCustody(tx[l])
                    /\ RecordExempt(tx[l], InitialData))
                => /\ tx[l].result \in {"AccountAlreadyInitialized", "DelegationFailed",
                                        "IncorrectProgramId", "NotEnoughAccountKeys"}
                   /\ tx[l].result = "AccountAlreadyInitialized" <=> tx[l].writes = 0
                   /\ tx[l].result = "AccountAlreadyInitialized" => WinnersOn(e) # {}
                   /\ tx[l].result = "DelegationFailed" => tx[l].cpis # <<>>
                   /\ tx[l].result = "IncorrectProgramId" => Key(tx[l].accounts[6]) # spl_token_id
                   /\ tx[l].result = "NotEnoughAccountKeys" => Len(tx[l].accounts) < 6
    /\ {x \in TokenAccounts : authority[x] # InitialAuthority[x]}
          = {tx[w].accounts[2] : w \in UNION {WinnersOn(e) : e \in EscrowAccounts}}

C9_Witness ==
    \E w, l \in Slots :
        /\ w # l
        /\ w \in WinnersOn("e_new")
        /\ l \in FinishedOn("e_new")
        /\ tx[w].contended
        /\ tx[l].result = "AccountAlreadyInitialized"
        /\ TermsOf(tx[l]) # TermsOf(tx[w])
        /\ unpack_unchecked(data["e_new"]) = Ok(TermsOf(tx[w]))

(***************************************************************************)
(* C11. Round trip of the state codec: for every record r (either value of *)
(* is_initialized, any three 32-byte keys, any u64 amount), Escrow::pack   *)
(* fills 105 bytes from which Escrow::unpack_unchecked succeeds and yields *)
(* r again, field by field.                                                *)
(***************************************************************************)
C11_RoundTrip ==
    io.fn = "pack" =>
        /\ io.output.ok
        /\ Len(io.output.val) = Escrow_LEN
        /\ LET r == io.input
               back == unpack_unchecked(io.output.val)
           IN  /\ back.ok
               /\ back.val.is_initialized = r.is_initialized
               /\ back.val.initializer_pubkey = r.initializer_pubkey
               /\ back.val.x_token_account_pubkey = r.x_token_account_pubkey
               /\ back.val.initializer_token_to_receive_account_pubkey
                      = r.initializer_token_to_receive_account_pubkey
               /\ back.val.expected_amount = r.expected_amount
               /\ back.val = r

\* An uninitialized record with three different keys and the largest u64 has been packed.
C11_Witness ==
    /\ io.fn = "pack"
    /\ io.output.ok
    /\ ~io.input.is_initialized
    /\ io.input.expected_amount = U64Max
    /\ Cardinality({io.input.initializer_pubkey, io.input.x_token_account_pubkey,
                    io.input.initializer_token_to_receive_account_pubkey}) = 3

(***************************************************************************)
(* C12. Escrow::unpack_unchecked on a 105-byte buffer fails with           *)
(* InvalidAccountData for every first byte other than 0 and 1, and never   *)
(* coerces it; first byte 0 decodes to is_initialized = false, first byte  *)
(* 1 to is_initialized = true.                                             *)
(***************************************************************************)
C12_CorruptDiscriminantRejected ==
    (io.fn = "unpack_unchecked" /\ Len(io.input) = Escrow_LEN) =>
        /\ io.input[1] \notin {0, 1} => io.output = Err("InvalidAccountData")
        /\ io.input[1] = 0 => io.output.ok /\ io.output.val.is_initialized = FALSE
        /\ io.input[1] = 1 => io.output.ok /\ io.output.val.is_initialized = TRUE

\* A 105-byte buffer whose first byte is 255 has been handed to the decoder and refused.
C12_Witness ==
    /\ io.fn = "unpack_unchecked"
    /\ Len(io.input) = Escrow_LEN
    /\ io.input[1] = 255
    /\ ~io.output.ok

(***************************************************************************)
(* C13. EscrowInstruction::unpack: tag 0 followed by the 8 little-endian   *)
(* bytes of n yields InitEscrow{amount: n}; the empty buffer, every buffer *)
(* whose first byte is not 0, and tag 0 followed by fewer than 8 bytes     *)
(* fail with InvalidInstruction. Decoding changes no account: until the    *)
(* handler has run, and for good when decoding failed, the ledger is what  *)
(* it was and the invocation has written nothing and requested nothing.    *)
(***************************************************************************)
C13_InstructionDecode ==
    io.fn = "unpack" =>
        LET b == io.input
        IN  /\ b = <<>> => io.output = Err("InvalidInstruction")
            /\ (b # <<>> /\ b[1] # 0) => io.output = Err("InvalidInstruction")
            /\ (b # <<>> /\ b[1] = 0 /\ Len(b) < 1 + AmountLen)
                   => io.output = Err("InvalidInstruction")
            /\ \A n \in CodecAmounts :
                   b = <<0>> \o to_le_bytes(n) => io.output = Ok(InitEscrow(n))
            /\ \A t \in Slots :
                   (tx[t].pc = "submitted" \/ ~io.output.ok) =>
                       /\ data = InitialData
                       /\ authority = InitialAuthority
                       /\ tx[t].writes = 0 /\ tx[t].wrote = {} /\ tx[t].cpis = <<>>
                       /\ io.output.ok => tx[t].pc = "idle" \/ tx[t].amount = io.output.val.amount

\* Tag 0 and the little-endian bytes of the largest u64 have been decoded and handed on.
C13_Witness ==
    /\ io.fn = "unpack"
    /\ io.input = <<0>> \o to_le_bytes(U64Max)
    /\ io.output.ok
    /\ tx[1].pc = "submitted"
    /\ tx[1].amount = U64Max

(***************************************************************************)
(* C14. Frame of the handler: the only account it writes is the escrow     *)
(* record, account (3); it writes none of (0), (1), (2), (4), (5); no      *)
(* other record and no other token account differs from the ledger in its  *)
(* working copy; and the authority of account (1) differs only once the    *)
(* custody service has carried out the delegation request on it.           *)
(***************************************************************************)
C14_HandlerWritesOnlyTheRecord ==
    \A t \in Slots :
        tx[t].pc \in {"entered", "packed", "returned"} =>
            LET c == tx[t]
            IN  /\ \A i \in DOMAIN c.accounts \ {4} : c.accounts[i] \notin c.wrote
                /\ c.wrote \subseteq {c.accounts[i] : i \in {4} \cap DOMAIN c.accounts}
                /\ c.writes > 0 <=> c.wrote # {}
                /\ \A a \in DOMAIN c.wdata :
                       c.wdata[a] # data[a] => (a \in c.wrote /\ a = c.accounts[4])
                /\ \A a \in DOMAIN c.wauth :
                       c.wauth[a] # authority[a] =>
                           /\ a = c.accounts[2]
                           /\ a \notin c.wrote
                           /\ c.pc = "returned"
                           /\ Len(c.cpis) = 1
                           /\ c.cpis[1].account = Key(a)
                           /\ c.wauth[a] = c.cpis[1].new_authority

\* An invocation has returned Ok with the record written and the deposit delegated.
C14_Witness ==
    \E t \in Slots :
        /\ tx[t].pc = "returned"
        /\ tx[t].result = "Ok"
        /\ tx[t].wrote = {tx[t].accounts[4]}
        /\ tx[t].wdata[tx[t].accounts[4]] # data[tx[t].accounts[4]]
        /\ tx[t].wauth[tx[t].accounts[2]] # authority[tx[t].accounts[2]]
        /\ tx[t].wauth[tx[t].accounts[3]] = authority[tx[t].accounts[3]]

C17_DelegationRequestShape ==
    \A t \in Slots :
        /\ \A i \in DOMAIN tx[t].cpis :
               LET c == tx[t]
                   ix == c.cpis[i]
               IN  /\ c.writes = 1
                   /\ c.is_signer
                   /\ ix.account = Key(c.accounts[2])
                   /\ ix.owner = Key(c.accounts[1])
                   /\ ix.signers = {Key(c.accounts[1])}
                   /\ ix.authority_type = "AccountOwner"
                   /\ ix.new_authority = find_program_address(escrow_seed, c.program_id)[1]
                   /\ ix.new_authority = find_program_address(<<101, 115, 99, 114, 111, 119>>,
                                                              escrow_program_id)[1]
        /\ \A u \in Slots :
               \A i \in DOMAIN tx[t].cpis : \A j \in DOMAIN tx[u].cpis :
                   tx[t].program_id = tx[u].program_id =>
                       tx[t].cpis[i].new_authority = tx[u].cpis[j].new_authority
        /\ \A a \in DOMAIN authority :
               authority[a] # InitialAuthority[a] =>
                   authority[a] = find_program_address(escrow_seed, escrow_program_id)[1]

\* An invocation of a second initializer, with its own deposit account and the largest
\* amount, has issued its delegation request and returned Ok.
C17_Witness ==
    \E t \in Slots :
        /\ tx[t].pc = "returned"
        /\ tx[t].cpis # <<>>
        /\ tx[t].accounts[1] = "bob"
        /\ tx[t].accounts[2] = "x_bob"
        /\ tx[t].amount = U64Max
        /\ tx[t].result = "Ok"

(***************************************************************************)
(* C18. An invocation with fewer than six accounts fails, issues no        *)
(* delegation request and leaves the ledger as it was. That includes the   *)
(* invocation with accounts (0)-(4) that passes every check: it writes the *)
(* record, then fails with NotEnoughAccountKeys when it looks up account   *)
(* (5), and the write is dropped.                                          *)
(***************************************************************************)
C18_MissingAccounts ==
    \A t \in Slots :
        (tx[t].pc = "returned" /\ Len(tx[t].accounts) < 6) =>
            LET c == tx[t]
            IN  /\ c.result \notin {"Ok", "none"}
                /\ c.cpis = <<>>
                /\ c.wauth = authority
                /\ ~commits(c)
                /\ committed_data(c, data) = data
                /\ committed_authority(c, authority) = authority
                /\ c.accounts = <<>> => c.result = "NotEnoughAccountKeys"
                /\ (/\ Len(c.accounts) = 5
                    /\ InitiatorSigned(c)
                    /\ PayoutOwnedByCustody(c)
                    /\ RecordExempt(c, data)
                    /\ unpack_unchecked(data[c.accounts[4]]).ok
                    /\ ~unpack_unchecked(data[c.accounts[4]]).val.is_initialized)
                   => /\ c.writes = 1
                      /\ c.wdata[c.accounts[4]] # data[c.accounts[4]]
                      /\ c.result = "NotEnoughAccountKeys"

\* An invocation with accounts (0)-(4) has written the record and failed on account (5).
C18_Witness ==
    \E t \in Slots :
        /\ tx[t].pc = "returned"
        /\ Len(tx[t].accounts) = 5
        /\ tx[t].writes = 1
        /\ tx[t].wdata[tx[t].accounts[4]] # data[tx[t].accounts[4]]
        /\ tx[t].result = "NotEnoughAccountKeys"

====
